---- MODULE Spec2Model ----
(***************************************************************************)
(* Model of the XEP-0191 blocking command module (module/xep_0191.go).     *)
(*                                                                         *)
(* One owner account with two live sessions talks to the module.  The      *)
(* block list store, the roster store and the session directory are the    *)
(* collaborators the module calls; every call and every stanza the module  *)
(* sends while it handles one IQ is appended, in program order, to `log`.  *)
(***************************************************************************)
EXTENDS Integers, Sequences, FiniteSets, TLC

\* longest item list of a block/unblock element that is enumerated
MaxItems == 2

\* ------------------------------------------------------------------------
\* The world around the module
\* ------------------------------------------------------------------------
Owner == "o"
Addr == {"a", "b"}
AddrOrder == <<"a", "b">>
OwnerSessions == {"o/1", "o/2"}
Streams == <<"o/1", "o/2", "a/1", "a/2", "b/1">>
RawJIDs == {"a", "b", "A", "bad"}
Subscriptions == {"none", "to", "from", "both"}
NoEntry == "absent"

subscriptionFrom == "from"
subscriptionBoth == "both"
UnavailableType == "unavailable"
AvailableType == "available"

StorageCalls ==
    {"FetchRosterItems", "FetchBlockListItems", "InsertOrUpdateBlockListItems",
     "DeleteBlockList", "DeleteBlockListItems"}
NoFailure == "none"

VARIABLES
    blockList,   \* stored block list of the owner: set of normalized JID strings
    roster,      \* stored roster of the owner: contact -> subscription or NoEntry
    requested,   \* per owner stream: context flag xep_191:requested
    pc,          \* "idle", "recv" (an IQ was matched), "done" (handler returned)
    req,         \* the IQ being processed
    log,         \* calls made and stanzas sent while processing req
    prev,        \* history: what the last returned request did, when it was a block
    tasks,       \* per owner stream: the handler running concurrently on it
    lastPresence,\* history: type of the last presence routed to each contact
    view         \* history: per owner stream, the block list as its client knows it

concVars == <<tasks, lastPresence, view>>
vars == <<blockList, roster, requested, pc, req, log, prev, tasks, lastPresence, view>>

\* ------------------------------------------------------------------------
\* Collaborators (xml, storage and c2s packages)
\* ------------------------------------------------------------------------
\* jid.ToBareJID()
ToBareJID(j) ==
    CASE j \in {"o", "o/1", "o/2"} -> "o"
      [] j \in {"a", "a/1", "a/2"} -> "a"
      [] j \in {"b", "b/1"} -> "b"
      [] OTHER -> j

\* xml.NewJIDString followed by JID.String(): parse and normalize an address
NewJIDString(raw) ==
    CASE raw = "bad" -> [err |-> TRUE, jid |-> ""]
      [] raw = "A" -> [err |-> FALSE, jid |-> "a"]
      [] OTHER -> [err |-> FALSE, jid |-> raw]

\* stm.Presence(): last presence of a stream, nil when it never sent one
Presence(stm) ==
    CASE stm = "o/1" -> [nil |-> FALSE, elems |-> <<"status:o/1">>]
      [] stm = "a/1" -> [nil |-> FALSE, elems |-> <<"status:a/1">>]
      [] stm = "b/1" -> [nil |-> FALSE, elems |-> <<"status:b/1">>]
      [] OTHER -> [nil |-> TRUE, elems |-> <<>>]

\* c2s.Instance().StreamsMatchingJID(jid)
StreamsMatchingJID(jid) ==
    SelectSeq(Streams, LAMBDA s : s = jid \/ (ToBareJID(jid) = jid /\ ToBareJID(s) = jid))

\* storage.Instance().FetchRosterItems(username)
FetchRosterItems(ros) ==
    LET present == SelectSeq(AddrOrder, LAMBDA a : ros[a] # NoEntry)
    IN [i \in 1..Len(present) |-> [JID |-> present[i], Subscription |-> ros[present[i]]]]

\* storage.Instance().FetchBlockListItems(username)
FetchBlockListItems(bl) == SelectSeq(AddrOrder, LAMBDA a : a \in bl)

\* storage.Instance().InsertOrUpdateBlockListItems(items)
InsertOrUpdateBlockListItems(bl, items) == bl \cup {items[i] : i \in 1..Len(items)}

\* storage.Instance().DeleteBlockListItems(items)
DeleteBlockListItems(bl, items) == bl \ {items[i] : i \in 1..Len(items)}

\* storage.Instance().DeleteBlockList(username)
DeleteBlockList(bl) == {}

\* ------------------------------------------------------------------------
\* Observable events
\* ------------------------------------------------------------------------
Event(op, to, from, typ, elem, data) ==
    [op |-> op, to |-> to, from |-> from, typ |-> typ, elem |-> elem, data |-> data]

\* a storage call and whether it returned an error
StorageCall(name, failed, data) ==
    Event(name, "storage", Owner, IF failed THEN "err" ELSE "ok", "", data)

\* stm.SendElement(elem): an IQ of type typ with child element elem
SendElement(stm, typ, elem, data) == Event("SendElement", stm, "", typ, elem, data)

\* xml.NewPresence(stm.JID(), owner bare JID, type) handed to c2s.Instance().Route
NewPresence(a, b, presenceType, elems) ==
    Event("Route", a, b, presenceType, "presence", elems)

\* c2s.Instance().ReloadBlockList(username)
ReloadBlockList == Event("ReloadBlockList", "c2s", Owner, "", "", <<>>)

\* iq.ResultIQ(), iq.BadRequestError(), iq.JidMalformedError(), iq.InternalServerError()
ResultIQ(stm, elem, data) == SendElement(stm, "result", elem, data)
BadRequestError(stm) == SendElement(stm, "bad-request", "", <<>>)
JidMalformedError(stm) == SendElement(stm, "jid-malformed", "", <<>>)
InternalServerError(stm) == SendElement(stm, "internal-server-error", "", <<>>)

\* ------------------------------------------------------------------------
\* module/xep_0191.go
\* ------------------------------------------------------------------------
\* slip: only the first stored item is compared
isJIDInBlockList_firstOnly(jid, blItems) ==
    Len(blItems) > 0 /\ blItems[1] = jid

isJIDInBlockList(jid, blItems) ==
    \E i \in 1..Len(blItems) : blItems[i] = jid


\* slip: any roster entry counts, whatever its subscription
isSubscribedFrom_anyEntry(jid, ris) ==
    \E i \in 1..Len(ris) : ris[i].JID = jid

isSubscribedFrom(jid, ris) ==
    \E i \in 1..Len(ris) :
        /\ ris[i].JID = jid
        /\ (ris[i].Subscription = subscriptionFrom \/ ris[i].Subscription = subscriptionBoth)

\* slip: an item that does not parse is skipped instead of reported
extractItemJIDs_skipMalformed(items) ==
    LET good == SelectSeq(items, LAMBDA it : ~NewJIDString(it).err)
    IN  [err |-> FALSE, ret |-> [i \in 1..Len(good) |-> NewJIDString(good[i]).jid]]

extractItemJIDs(items) ==
    IF \E i \in 1..Len(items) : NewJIDString(items[i]).err
    THEN [err |-> TRUE, ret |-> <<>>]
    ELSE [err |-> FALSE, ret |-> [i \in 1..Len(items) |-> NewJIDString(items[i]).jid]]

\* the payload appended to the presence built for stream stm
presencePayload(x, stm, presenceType) ==
    IF ~Presence(stm).nil /\ presenceType = AvailableType
    THEN Presence(stm).elems
    ELSE <<>>

broadcastPresenceMatching(x, jid, ris, presenceType) ==
    LET stms == StreamsMatchingJID(jid)
        sent == SelectSeq(stms, LAMBDA stm : isSubscribedFrom(jid, ris))
    IN  [i \in 1..Len(sent) |->
            NewPresence(sent[i], ToBareJID(x), presenceType,
                        presencePayload(x, sent[i], presenceType))]

\* slip: the requesting stream is left out of the push
pushIQ_siblingsOnly(x, elem, flags) ==
    LET stms == StreamsMatchingJID(ToBareJID(x))
        sent == SelectSeq(stms, LAMBDA stm : flags[stm] /\ stm # x)
    IN  [i \in 1..Len(sent) |-> SendElement(sent[i], "set", elem.name, elem.items)]

\* slip: the xep_191:requested flag is not consulted
pushIQ_allStreams(x, elem, flags) ==
    LET stms == StreamsMatchingJID(ToBareJID(x))
    IN  [i \in 1..Len(stms) |-> SendElement(stms[i], "set", elem.name, elem.items)]

pushIQ(x, elem, flags) ==
    LET stms == StreamsMatchingJID(ToBareJID(x))
        sent == SelectSeq(stms, LAMBDA stm : flags[stm])
    IN  [i \in 1..Len(sent) |-> SendElement(sent[i], "set", elem.name, elem.items)]

\* slip: the context flag is never set
sendBlockList_flagNotSet(x, bl, flags, fail) ==
    IF fail = "FetchBlockListItems"
    THEN [log |-> << StorageCall("FetchBlockListItems", TRUE, <<>>),
                     InternalServerError(x) >>,
          blockList |-> bl,
          requested |-> flags]
    ELSE [log |-> << StorageCall("FetchBlockListItems", FALSE, FetchBlockListItems(bl)),
                     ResultIQ(x, "blocklist", FetchBlockListItems(bl)) >>,
          blockList |-> bl,
          requested |-> flags]

\* sendBlockList: the handler of <iq type='get'><blocklist/></iq>
sendBlockList(x, bl, flags, fail) ==
    IF fail = "FetchBlockListItems"
    THEN [log |-> << StorageCall("FetchBlockListItems", TRUE, <<>>),
                     InternalServerError(x) >>,
          blockList |-> bl,
          requested |-> flags]
    ELSE LET blItms == FetchBlockListItems(bl)
         IN [log |-> << StorageCall("FetchBlockListItems", FALSE, blItms),
                        ResultIQ(x, "blocklist", blItms) >>,
             blockList |-> bl,
             requested |-> [flags EXCEPT ![x] = TRUE]]

\* the loop of block: presence and item for every JID not yet blocked
RECURSIVE blockDiff(_, _, _, _, _)
blockDiff(x, jds, blItms, ris, i) ==
    IF i > Len(jds)
    THEN [log |-> <<>>, bl |-> <<>>]
    ELSE LET rest == blockDiff(x, jds, blItms, ris, i + 1)
         IN IF ~isJIDInBlockList(jds[i], blItms)
            THEN [log |-> broadcastPresenceMatching(x, jds[i], ris, UnavailableType) \o rest.log,
                  bl |-> <<jds[i]>> \o rest.bl]
            ELSE rest

\* slip: the reload of the session directory is forgotten
succeed_noReload(x, elem, flags) ==
    <<ResultIQ(x, "", <<>>)>> \o pushIQ(x, elem, flags)

\* the tail of block and unblock: result, push, reload
succeed(x, elem, flags) ==
    <<ResultIQ(x, "", <<>>)>> \o pushIQ(x, elem, flags) \o <<ReloadBlockList>>

\* slip: the result is sent before the items are inserted
blockJIDs_replyBeforeInsert(x, elem, jds, bl, ros, flags, fail) ==
    LET ris == FetchRosterItems(ros)
        blItms == FetchBlockListItems(bl)
        diff == blockDiff(x, jds, blItms, ris, 1)
    IN  [log |-> << StorageCall("FetchRosterItems", FALSE, <<>>),
                    StorageCall("FetchBlockListItems", FALSE, blItms) >>
                 \o diff.log
                 \o <<ResultIQ(x, "", <<>>)>>
                 \o <<StorageCall("InsertOrUpdateBlockListItems", FALSE, diff.bl)>>
                 \o pushIQ(x, elem, flags) \o <<ReloadBlockList>>,
         blockList |-> InsertOrUpdateBlockListItems(bl, diff.bl),
         requested |-> flags]

\* slip: no return after the error reply of a failed insert
blockJIDs_noReturnOnInsertError(x, elem, jds, bl, ros, flags, fail) ==
    LET ris == FetchRosterItems(ros)
        blItms == FetchBlockListItems(bl)
        diff == blockDiff(x, jds, blItms, ris, 1)
        failed == fail \in {"FetchRosterItems", "FetchBlockListItems",
                            "InsertOrUpdateBlockListItems"}
    IN  [log |-> << StorageCall("FetchRosterItems", FALSE, <<>>),
                    StorageCall("FetchBlockListItems", FALSE, blItms) >>
                 \o diff.log
                 \o << StorageCall("InsertOrUpdateBlockListItems", failed, diff.bl) >>
                 \o (IF failed THEN <<InternalServerError(x)>> ELSE <<>>)
                 \o succeed(x, elem, flags),
         blockList |-> IF failed THEN bl ELSE InsertOrUpdateBlockListItems(bl, diff.bl),
         requested |-> flags]

\* block after its input checks: roster and block list reads, diff, insert
blockJIDs(x, elem, jds, bl, ros, flags, fail) ==
    LET ris == FetchRosterItems(ros)
        blItms == FetchBlockListItems(bl)
        diff == blockDiff(x, jds, blItms, ris, 1)
        reads == << StorageCall("FetchRosterItems", FALSE, <<>>),
                    StorageCall("FetchBlockListItems", FALSE, blItms) >>
        unchanged(l) == [log |-> l, blockList |-> bl, requested |-> flags]
    IN  IF fail = "FetchRosterItems"
        THEN unchanged(<< StorageCall("FetchRosterItems", TRUE, <<>>),
                          InternalServerError(x) >>)
        ELSE IF fail = "FetchBlockListItems"
        THEN unchanged(<< StorageCall("FetchRosterItems", FALSE, <<>>),
                          StorageCall("FetchBlockListItems", TRUE, <<>>),
                          InternalServerError(x) >>)
        ELSE IF Len(diff.bl) > 0 /\ fail = "InsertOrUpdateBlockListItems"
        THEN unchanged(reads \o diff.log
                       \o << StorageCall("InsertOrUpdateBlockListItems", TRUE, diff.bl),
                             InternalServerError(x) >>)
        ELSE IF Len(diff.bl) > 0
        THEN [log |-> reads \o diff.log
                      \o <<StorageCall("InsertOrUpdateBlockListItems", FALSE, diff.bl)>>
                      \o succeed(x, elem, flags),
              blockList |-> InsertOrUpdateBlockListItems(bl, diff.bl),
              requested |-> flags]
        ELSE unchanged(reads \o diff.log \o succeed(x, elem, flags))

\* slip: the check for an empty item list is missing
block_noEmptyCheck(x, elem, bl, ros, flags, fail) ==
    IF extractItemJIDs(elem.items).err
    THEN [log |-> <<JidMalformedError(x)>>, blockList |-> bl, requested |-> flags]
    ELSE blockJIDs(x, elem, extractItemJIDs(elem.items).ret, bl, ros, flags, fail)

\* block: the handler of <iq type='set'><block>items</block></iq>
block(x, elem, bl, ros, flags, fail) ==
    LET items == elem.items
        ex == extractItemJIDs(items)
        unchanged(l) == [log |-> l, blockList |-> bl, requested |-> flags]
    IN  IF Len(items) = 0 THEN unchanged(<<BadRequestError(x)>>)
        ELSE IF ex.err THEN unchanged(<<JidMalformedError(x)>>)
        ELSE blockJIDs(x, elem, ex.ret, bl, ros, flags, fail)

\* the clear-all loop of unblock: presence for every stored item
\* slip: the loop stops after the first stored item
unblockAll_firstOnly(x, blItms, ris, i) ==
    IF Len(blItms) = 0
    THEN <<>>
    ELSE broadcastPresenceMatching(x, NewJIDString(blItms[1]).jid, ris, AvailableType)

RECURSIVE unblockAll(_, _, _, _)
unblockAll(x, blItms, ris, i) ==
    IF i > Len(blItms)
    THEN <<>>
    ELSE broadcastPresenceMatching(x, NewJIDString(blItms[i]).jid, ris, AvailableType)
         \o unblockAll(x, blItms, ris, i + 1)

\* the targeted loop of unblock: presence and item for every blocked JID
\* slip: the block list is not consulted, every requested JID is unblocked
unblockDiff_allRequested(x, jds, blItms, ris, i) ==
    [log |-> IF Len(jds) = 0 THEN <<>>
             ELSE broadcastPresenceMatching(x, jds[1], ris, AvailableType),
     bl |-> jds]

RECURSIVE unblockDiff(_, _, _, _, _)
unblockDiff(x, jds, blItms, ris, i) ==
    IF i > Len(jds)
    THEN [log |-> <<>>, bl |-> <<>>]
    ELSE LET rest == unblockDiff(x, jds, blItms, ris, i + 1)
         IN IF isJIDInBlockList(jds[i], blItms)
            THEN [log |-> broadcastPresenceMatching(x, jds[i], ris, AvailableType) \o rest.log,
                  bl |-> <<jds[i]>> \o rest.bl]
            ELSE rest

\* slip: presence is broadcast before the list is deleted, as block does
unblockClear_presenceFirst(x, elem, bl, ros, flags, fail) ==
    LET ris == FetchRosterItems(ros)
        blItms == FetchBlockListItems(bl)
    IN  [log |-> << StorageCall("FetchRosterItems", FALSE, <<>>),
                    StorageCall("FetchBlockListItems", FALSE, blItms) >>
                 \o unblockAll(x, blItms, ris, 1)
                 \o <<StorageCall("DeleteBlockList", FALSE, <<>>)>>
                 \o succeed(x, elem, flags),
         blockList |-> DeleteBlockList(bl),
         requested |-> flags]

\* unblock with an empty item list: delete the whole list, then presence
unblockClear(x, elem, bl, ros, flags, fail) ==
    LET ris == FetchRosterItems(ros)
        blItms == FetchBlockListItems(bl)
        reads == << StorageCall("FetchRosterItems", FALSE, <<>>),
                    StorageCall("FetchBlockListItems", FALSE, blItms) >>
    IN  IF fail = "DeleteBlockList"
        THEN [log |-> reads \o << StorageCall("DeleteBlockList", TRUE, <<>>),
                                  InternalServerError(x) >>,
              blockList |-> bl,
              requested |-> flags]
        ELSE [log |-> reads \o <<StorageCall("DeleteBlockList", FALSE, <<>>)>>
                      \o unblockAll(x, blItms, ris, 1)
                      \o succeed(x, elem, flags),
              blockList |-> DeleteBlockList(bl),
              requested |-> flags]

\* unblock with items: parse, presence for every blocked JID, delete the items
unblockItems(x, elem, bl, ros, flags, fail) ==
    LET ex == extractItemJIDs(elem.items)
        ris == FetchRosterItems(ros)
        blItms == FetchBlockListItems(bl)
        diff == unblockDiff(x, ex.ret, blItms, ris, 1)
        reads == << StorageCall("FetchRosterItems", FALSE, <<>>),
                    StorageCall("FetchBlockListItems", FALSE, blItms) >>
        unchanged(l) == [log |-> l, blockList |-> bl, requested |-> flags]
    IN  IF ex.err THEN unchanged(reads \o <<JidMalformedError(x)>>)
        ELSE IF fail = "DeleteBlockListItems"
        THEN unchanged(reads \o diff.log
                       \o << StorageCall("DeleteBlockListItems", TRUE, diff.bl),
                             InternalServerError(x) >>)
        ELSE [log |-> reads \o diff.log
                      \o <<StorageCall("DeleteBlockListItems", FALSE, diff.bl)>>
                      \o succeed(x, elem, flags),
              blockList |-> DeleteBlockListItems(bl, diff.bl),
              requested |-> flags]

\* unblock: the handler of <iq type='set'><unblock>items</unblock></iq>
unblock(x, elem, bl, ros, flags, fail) ==
    LET unchanged(l) == [log |-> l, blockList |-> bl, requested |-> flags]
    IN  IF fail = "FetchRosterItems"
        THEN unchanged(<< StorageCall("FetchRosterItems", TRUE, <<>>),
                          InternalServerError(x) >>)
        ELSE IF fail = "FetchBlockListItems"
        THEN unchanged(<< StorageCall("FetchRosterItems", FALSE, <<>>),
                          StorageCall("FetchBlockListItems", TRUE, <<>>),
                          InternalServerError(x) >>)
        ELSE IF Len(elem.items) = 0
        THEN unblockClear(x, elem, bl, ros, flags, fail)
        ELSE unblockItems(x, elem, bl, ros, flags, fail)

\* ------------------------------------------------------------------------
\* State machine
\* ------------------------------------------------------------------------
RECURSIVE SeqsUpTo(_, _)
SeqsUpTo(S, n) ==
    IF n = 0 THEN {<<>>}
    ELSE LET shorter == SeqsUpTo(S, n - 1)
         IN shorter \cup {Append(q, e) : q \in {r \in shorter : Len(r) = n - 1}, e \in S}

ItemLists == SeqsUpTo(RawJIDs, MaxItems)

NoReq == [stm |-> "", type |-> "", name |-> "", items |-> <<>>]
NoPrev == [c |-> "", before |-> {}, unavailable |-> <<>>]
NoTask == [pc |-> "idle", req |-> NoReq, ris |-> <<>>, blItms |-> <<>>,
           added |-> {}, removed |-> {}, reply |-> ""]
NoView == [fetched |-> FALSE, list |-> {}]

Init ==
    /\ blockList = {}
    /\ roster \in [Addr -> Subscriptions \cup {NoEntry}]
    /\ requested = [s \in OwnerSessions |-> FALSE]
    /\ pc = "idle"
    /\ req = NoReq
    /\ log = <<>>
    /\ prev = NoPrev
    /\ tasks = [s \in OwnerSessions |-> NoTask]
    /\ lastPresence = [a \in Addr |-> "none"]
    /\ view = [s \in OwnerSessions |-> NoView]

\* an IQ of the blocking namespace arrives on an owner stream and is matched
MatchesIQ ==
    /\ pc = "idle"
    /\ \E stm \in OwnerSessions :
          \/ req' = [stm |-> stm, type |-> "get", name |-> "blocklist", items |-> <<>>]
          \/ \E name \in {"block", "unblock"}, items \in ItemLists :
                req' = [stm |-> stm, type |-> "set", name |-> name, items |-> items]
    /\ pc' = "recv"
    /\ UNCHANGED <<blockList, roster, requested, log, prev, concVars>>

\* apply the outcome of a handler
Handled(r) ==
    /\ log' = r.log
    /\ blockList' = r.blockList
    /\ requested' = r.requested
    /\ pc' = "done"
    /\ UNCHANGED <<roster, req, prev, concVars>>

ProcessIQGet ==
    /\ pc = "recv"
    /\ req.type = "get"
    /\ \E fail \in StorageCalls \cup {NoFailure} :
          Handled(sendBlockList(req.stm, blockList, requested, fail))

ProcessIQBlock ==
    /\ pc = "recv"
    /\ req.type = "set"
    /\ req.name = "block"
    /\ \E fail \in StorageCalls \cup {NoFailure} :
          Handled(block(req.stm, req, blockList, roster, requested, fail))

ProcessIQUnblock ==
    /\ pc = "recv"
    /\ req.type = "set"
    /\ req.name = "unblock"
    /\ \E fail \in StorageCalls \cup {NoFailure} :
          Handled(unblock(req.stm, req, blockList, roster, requested, fail))

\* ProcessIQ returns: the stanzas have left the module, the stream is ready
\* for its next IQ
Return ==
    /\ pc = "done"
    /\ pc' = "idle"
    /\ req' = NoReq
    /\ log' = <<>>
    /\ UNCHANGED <<blockList, roster, requested, prev, concVars>>

Next ==
    \/ MatchesIQ
    \/ ProcessIQGet
    \/ ProcessIQBlock
    \/ ProcessIQUnblock
    \/ Return

Spec == Init /\ [][Next]_vars

TypeOK ==
    /\ blockList \subseteq Addr
    /\ roster \in [Addr -> Subscriptions \cup {NoEntry}]
    /\ requested \in [OwnerSessions -> BOOLEAN]
    /\ pc \in {"idle", "recv", "done"}

\* ------------------------------------------------------------------------
\* Reading the log of the IQ that was just handled
\* ------------------------------------------------------------------------
Finished == pc = "done"
IsBlock == req.type = "set" /\ req.name = "block"
IsUnblock == req.type = "set" /\ req.name = "unblock"
LogIdx == 1..Len(log)
VisibleTo(a) == a \in Addr /\ roster[a] \in {subscriptionFrom, subscriptionBoth}

\* requested addresses after normalization (unparseable ones left out)
WantedJIDs ==
    {NewJIDString(req.items[i]).jid :
        i \in {k \in 1..Len(req.items) : ~NewJIDString(req.items[k]).err}}

\* the block list the handler read, when the read succeeded
ReadBlockList ==
    \E i \in LogIdx : log[i].op = "FetchBlockListItems" /\ log[i].typ = "ok"
BlockedBefore ==
    LET i == CHOOSE k \in LogIdx : log[k].op = "FetchBlockListItems" /\ log[k].typ = "ok"
    IN  {log[i].data[k] : k \in 1..Len(log[i].data)}

CallFailed == \E i \in LogIdx : log[i].to = "storage" /\ log[i].typ = "err"
Called(name) == \E i \in LogIdx : log[i].op = name
PresencesTo(stm) == {i \in LogIdx : log[i].op = "Route" /\ log[i].to = stm}
PresencesFor(a) == {i \in LogIdx : log[i].op = "Route" /\ ToBareJID(log[i].to) = a}
PushesTo(stm) ==
    {i \in LogIdx : log[i].op = "SendElement" /\ log[i].to = stm /\ log[i].typ = "set"}
Reloads == {i \in LogIdx : log[i].op = "ReloadBlockList"}
RepliesOf(typ) ==
    {i \in LogIdx : log[i].op = "SendElement" /\ log[i].to = req.stm /\ log[i].typ = typ}
Errors ==
    RepliesOf("bad-request") \cup RepliesOf("jid-malformed")
        \cup RepliesOf("internal-server-error")
Succeeded == RepliesOf("result") # {} /\ Errors = {}

HasMalformedItem == \E i \in 1..Len(req.items) : NewJIDString(req.items[i]).err
NoPresencePushReload ==
    /\ \A i \in LogIdx : log[i].op # "Route"
    /\ \A s \in OwnerSessions : PushesTo(s) = {}
    /\ Reloads = {}
NoStorageCall == \A i \in LogIdx : log[i].to # "storage"
NoStorageWrite ==
    \A i \in LogIdx :
        log[i].op \notin {"InsertOrUpdateBlockListItems", "DeleteBlockList",
                          "DeleteBlockListItems"}
\* the requester is sent exactly one reply, of the given type
OnlyReply(typ) ==
    /\ Cardinality(RepliesOf(typ)) = 1
    /\ Cardinality(RepliesOf("result") \cup Errors) = 1
\* the handler step of the IQ in req
Handling == pc = "recv" /\ pc' = "done"

\* ------------------------------------------------------------------------
\* Claims
\* ------------------------------------------------------------------------

\* C1: blocking an address that is already blocked does nothing for that
\* address: it stays in the block set, none of its sessions is sent a
\* presence, and it is never the cause of an error; a request naming only
\* blocked addresses writes nothing, leaves the block set as it was read and
\* is answered with a result.
C1_BlockAlreadyBlockedIsNoOp ==
    (Finished /\ IsBlock /\ ReadBlockList) =>
        /\ \A j \in WantedJIDs \cap BlockedBefore :
              /\ PresencesFor(j) = {}
              /\ j \in blockList
        /\ (WantedJIDs \subseteq BlockedBefore) =>
              /\ blockList = BlockedBefore
              /\ ~Called("InsertOrUpdateBlockListItems")
              /\ ~CallFailed
              /\ Succeeded

C1_Witness ==
    /\ Finished /\ IsBlock /\ ReadBlockList
    /\ WantedJIDs \subseteq BlockedBefore
    /\ \E j \in WantedJIDs : VisibleTo(j)
    /\ Cardinality(BlockedBefore) = 2
    /\ Succeeded

\* C2: no presence is ever routed to a session of an address whose roster
\* relation with the owner is none or to, or that has no roster entry.
C2_NoPresenceWithoutFromSubscription ==
    \A i \in LogIdx :
        log[i].op = "Route" => VisibleTo(ToBareJID(log[i].to))

C2_Witness ==
    /\ Finished /\ req.type = "set" /\ Succeeded
    /\ \E i \in LogIdx :
          /\ log[i].op \in {"InsertOrUpdateBlockListItems", "DeleteBlockListItems"}
          /\ \E k \in 1..Len(log[i].data) : ~VisibleTo(log[i].data[k])
          /\ \E k \in 1..Len(log[i].data) : VisibleTo(log[i].data[k])

\* C3: after a successful block or unblock every owner session other than
\* the requesting one whose flag is set is sent exactly one push carrying
\* the request's element unmodified, and no session whose flag is unset is
\* sent a push.
C3_PushToFlaggedSiblings ==
    (Finished /\ req.type = "set" /\ Succeeded) =>
        /\ \A s \in OwnerSessions \ {req.stm} :
              requested[s] =>
                 /\ Cardinality(PushesTo(s)) = 1
                 /\ \A i \in PushesTo(s) :
                       log[i].elem = req.name /\ log[i].data = req.items
        /\ \A s \in OwnerSessions : ~requested[s] => PushesTo(s) = {}

C3_Witness ==
    /\ Finished /\ req.type = "set" /\ Succeeded
    /\ Len(req.items) > 0
    /\ ~requested[req.stm]
    /\ \E s \in OwnerSessions \ {req.stm} : requested[s] /\ PushesTo(s) # {}

\* C4 (as claimed): the session that issued a block or unblock is never sent
\* a push for its own request.
C4_RequesterNeverPushed ==
    (Finished /\ req.type = "set") => PushesTo(req.stm) = {}

\* C4 (amended): the requesting session is sent a push for its own
\* successful request exactly when its own flag is set, and then exactly one,
\* carrying the request's element; a request that failed pushes nothing.
C4_RequesterPushedIffFlagged ==
    (Finished /\ req.type = "set") =>
        /\ Succeeded =>
              /\ Cardinality(PushesTo(req.stm)) = (IF requested[req.stm] THEN 1 ELSE 0)
              /\ \A i \in PushesTo(req.stm) :
                    log[i].elem = req.name /\ log[i].data = req.items
        /\ ~Succeeded => PushesTo(req.stm) = {}

C4_Witness ==
    /\ Finished /\ req.type = "set" /\ Succeeded
    /\ requested[req.stm]
    /\ PushesTo(req.stm) # {}
    /\ \E s \in OwnerSessions \ {req.stm} : ~requested[s]

\* C5: a successful unblock with no items leaves the block set empty and
\* routes one available presence from the owner's bare address to every live
\* session of every address that was blocked and has relation from or both,
\* and no presence to any other session.
C5_ClearAll ==
    (Finished /\ IsUnblock /\ Len(req.items) = 0 /\ Succeeded) =>
        /\ blockList = {}
        /\ \A i \in LogIdx :
              log[i].op = "Route" =>
                 log[i].typ = AvailableType /\ log[i].from = Owner
        /\ \A k \in 1..Len(Streams) :
              Cardinality(PresencesTo(Streams[k])) =
                 (IF ToBareJID(Streams[k]) \in BlockedBefore
                        /\ VisibleTo(ToBareJID(Streams[k]))
                  THEN 1 ELSE 0)

C5_Witness ==
    /\ Finished /\ IsUnblock /\ Len(req.items) = 0 /\ Succeeded
    /\ BlockedBefore = Addr
    /\ VisibleTo("b")
    /\ ~VisibleTo("a")
    /\ PresencesTo("b/1") # {}

\* C6 (as claimed): every available presence carries the last presence of the
\* owner's requesting session (nothing when it has none), and every
\* unavailable presence carries no payload.
C6_PresenceCarriesOwnerPayload ==
    \A i \in LogIdx :
        log[i].op = "Route" =>
            /\ log[i].typ = AvailableType =>
                  log[i].data = (IF Presence(req.stm).nil THEN <<>>
                                 ELSE Presence(req.stm).elems)
            /\ log[i].typ = UnavailableType => log[i].data = <<>>

\* C7 (as claimed): a list fetch never changes the block set, emits no
\* presence, push or reload, leaves every other session's flag unchanged and
\* always leaves the requesting session's flag set.
C7_FetchAlwaysSetsFlag ==
    [][(Handling /\ req.type = "get") =>
          /\ blockList' = blockList
          /\ NoPresencePushReload'
          /\ \A s \in OwnerSessions \ {req.stm} : requested'[s] = requested[s]
          /\ requested'[req.stm]]_vars

\* C7 (amended): a list fetch never changes the block set, emits no
\* presence, push or reload and leaves every other session's flag unchanged;
\* it leaves the requesting session's flag set when it answers with the list,
\* and leaves that flag as it was when the storage read fails and it answers
\* internal-server-error.
C7_FetchSetsFlagOnSuccess ==
    [][(Handling /\ req.type = "get") =>
          /\ blockList' = blockList
          /\ NoPresencePushReload'
          /\ NoStorageWrite'
          /\ \A s \in OwnerSessions \ {req.stm} : requested'[s] = requested[s]
          /\ \/ OnlyReply("result")' /\ ~CallFailed' /\ requested'[req.stm]
             \/ /\ OnlyReply("internal-server-error")' /\ CallFailed'
                /\ requested'[req.stm] = requested[req.stm]]_vars

C7_Witness ==
    /\ Finished /\ req.type = "get" /\ Succeeded
    /\ requested[req.stm]
    /\ blockList # {}
    /\ \E s \in OwnerSessions \ {req.stm} : ~requested[s]

\* C8: a block with no item is answered bad-request and does nothing else
\* (no storage call, no presence, push or reload, block set and flags
\* unchanged); an unblock with no item is never answered bad-request or
\* jid-malformed and, unless a storage call fails, deletes the whole list.
C8_EmptyItemList ==
    [][(Handling /\ req.type = "set" /\ Len(req.items) = 0) =>
          /\ IsBlock =>
                /\ log' = <<BadRequestError(req.stm)>>
                /\ NoStorageCall' /\ NoPresencePushReload'
                /\ blockList' = blockList
                /\ requested' = requested
          /\ IsUnblock =>
                /\ RepliesOf("bad-request")' = {}
                /\ RepliesOf("jid-malformed")' = {}
                /\ \/ CallFailed' /\ OnlyReply("internal-server-error")'
                   \/ /\ ~CallFailed' /\ OnlyReply("result")'
                      /\ Called("DeleteBlockList")'
                      /\ blockList' = {}]_vars

C8_Witness ==
    /\ Finished /\ IsBlock /\ Len(req.items) = 0
    /\ RepliesOf("bad-request") # {}
    /\ blockList # {}
    /\ \E s \in OwnerSessions : requested[s]

\* C9 (as claimed): a block or unblock with an unparseable address is
\* answered jid-malformed and has no side effect for any of its addresses.
C9_MalformedAlwaysJidMalformed ==
    [][(Handling /\ req.type = "set" /\ HasMalformedItem) =>
          /\ OnlyReply("jid-malformed")'
          /\ blockList' = blockList
          /\ NoStorageWrite' /\ NoPresencePushReload']_vars

\* C9 (amended): a block or unblock with an unparseable address has no side
\* effect for any of its addresses (block set unchanged, no storage write, no
\* presence, push or reload) and is answered with an error: a block with
\* jid-malformed, before any storage call; an unblock with jid-malformed when
\* its roster and block list reads succeeded and with internal-server-error
\* when one of them failed.
C9_MalformedNoSideEffect ==
    [][(Handling /\ req.type = "set" /\ HasMalformedItem) =>
          /\ blockList' = blockList
          /\ requested' = requested
          /\ NoStorageWrite' /\ NoPresencePushReload'
          /\ IsBlock => OnlyReply("jid-malformed")' /\ NoStorageCall'
          /\ IsUnblock =>
                \/ ~CallFailed' /\ OnlyReply("jid-malformed")'
                \/ CallFailed' /\ OnlyReply("internal-server-error")']_vars

C9_Witness ==
    /\ Finished /\ IsUnblock /\ HasMalformedItem
    /\ RepliesOf("jid-malformed") # {}
    /\ \E j \in WantedJIDs : j \in blockList /\ VisibleTo(j)

\* the state of the log after a block or unblock one of whose storage calls
\* failed
FailedRequestLog ==
    /\ OnlyReply("internal-server-error")
    /\ Len(log) \in RepliesOf("internal-server-error")
    /\ \A s \in OwnerSessions : PushesTo(s) = {}
    /\ Reloads = {}
    /\ \A i \in LogIdx :
          log[i].op = "Route" =>
             log[i].typ = (IF IsBlock THEN UnavailableType ELSE AvailableType)
    /\ \A i \in LogIdx :
          (log[i].op \in {"InsertOrUpdateBlockListItems", "DeleteBlockListItems"}
              /\ log[i].typ = "err") =>
             \A k \in 1..Len(log[i].data), n \in 1..Len(Streams) :
                (VisibleTo(log[i].data[k]) /\ ToBareJID(Streams[n]) = log[i].data[k])
                    => \E m \in PresencesTo(Streams[n]) : m < i

\* C10: when a storage or roster call of a block or unblock fails, the
\* requester is answered internal-server-error and no result, the block set
\* is what it was, nothing is pushed or reloaded, and the presences routed
\* before the failing call stay routed with nothing sent to take them back.
C10_StorageFailure ==
    [][(Handling /\ req.type = "set" /\ CallFailed') =>
          /\ FailedRequestLog'
          /\ blockList' = blockList
          /\ requested' = requested]_vars

C10_Witness ==
    /\ Finished /\ IsBlock /\ CallFailed
    /\ Called("InsertOrUpdateBlockListItems")
    /\ \E i \in LogIdx : log[i].op = "Route"
    /\ RepliesOf("internal-server-error") # {}

\* positions in the log
Routes == {i \in LogIdx : log[i].op = "Route"}
Writes ==
    {i \in LogIdx : log[i].op \in {"InsertOrUpdateBlockListItems", "DeleteBlockList",
                                   "DeleteBlockListItems"}}
Results == RepliesOf("result")
Pushes == {i \in LogIdx : log[i].op = "SendElement" /\ log[i].typ = "set"}
Before(I, J) == \A i \in I, j \in J : i < j
SessionsOf(a) == {Streams[n] : n \in {k \in 1..Len(Streams) : ToBareJID(Streams[k]) = a}}
NoDuplicates(q) == \A i, j \in 1..Len(q) : q[i] = q[j] => i = j

\* C11: a block or unblock that succeeded, changed or not, reloads the
\* owner's block list exactly once, after its storage write, its result and
\* its pushes; a request answered with an error and a list fetch never
\* reload.
C11_ReloadOnceAfterSuccess ==
    Finished =>
        /\ (req.type = "set" /\ Succeeded) =>
              /\ Cardinality(Reloads) = 1
              /\ Before(Writes, Reloads)
              /\ Before(Results, Reloads)
        /\ (req.type = "get" \/ ~Succeeded) => Reloads = {}

C11_Witness ==
    /\ Finished /\ IsBlock /\ Succeeded
    /\ Writes = {}
    /\ Reloads # {}

\* C13 (as claimed): in every unblock, clear-all or targeted, the available
\* presences come before the deletion, the deletion before the result, the
\* result before the pushes and the pushes before the reload.
C13_UnblockOrderedAsBlock ==
    (Finished /\ IsUnblock /\ Succeeded) =>
        /\ Before(Routes, Writes)
        /\ Before(Writes, Results)
        /\ Before(Results, Pushes)
        /\ Before(Pushes, Reloads)

\* C13 (amended): in a targeted unblock the available presences come before
\* the deletion of the items; in a clear-all unblock the deletion of the list
\* comes before the available presences; in both, presences and deletion
\* come before the result, the result before the pushes and the pushes
\* before the reload.
C13_UnblockOrder ==
    (Finished /\ IsUnblock /\ Succeeded) =>
        /\ Cardinality(Writes) = 1
        /\ Len(req.items) > 0 => Before(Routes, Writes)
        /\ Len(req.items) = 0 => Before(Writes, Routes)
        /\ Before(Routes, Results)
        /\ Before(Writes, Results)
        /\ Before(Results, Pushes)
        /\ Before(Pushes, Reloads)
        /\ Before(Results, Reloads)

C13_Witness ==
    /\ Finished /\ IsUnblock /\ Succeeded
    /\ Len(req.items) = 0
    /\ Routes # {}
    /\ Pushes # {}

\* C14: in a block every unavailable presence is routed before the insert,
\* the result is sent only after the insert of all newly blocked addresses
\* succeeded, and no push and no reload precedes the result.
C14_BlockOrder ==
    (Finished /\ IsBlock) =>
        /\ Before(Routes, Writes)
        /\ \A i \in Routes : log[i].typ = UnavailableType
        /\ Results # {} =>
              /\ Before(Routes, Results)
              /\ Before(Writes, Results)
              /\ \A i \in Writes : log[i].typ = "ok"
              /\ (WantedJIDs \ BlockedBefore) # {} =>
                    \E i \in Writes :
                       /\ log[i].op = "InsertOrUpdateBlockListItems"
                       /\ (WantedJIDs \ BlockedBefore)
                             \subseteq {log[i].data[k] : k \in 1..Len(log[i].data)}
        /\ (Pushes \cup Reloads) # {} => Results # {}
        /\ Before(Results, Pushes \cup Reloads)

C14_Witness ==
    /\ Finished /\ IsBlock /\ Succeeded
    /\ Routes # {}
    /\ Writes # {}
    /\ Pushes # {}

\* C15 (as claimed): whatever the item list of a block, each live session of
\* a newly blocked address with relation from or both is sent exactly one
\* unavailable presence from the owner's bare address, and the items handed
\* to storage, like the block set, hold each address at most once.
C15_OnePresenceOneItem ==
    (Finished /\ IsBlock /\ ReadBlockList) =>
        /\ \A j \in WantedJIDs \ BlockedBefore :
              VisibleTo(j) =>
                 \A s \in SessionsOf(j) :
                    /\ Cardinality(PresencesTo(s)) = 1
                    /\ \A i \in PresencesTo(s) :
                          log[i].typ = UnavailableType /\ log[i].from = Owner
        /\ \A i \in Writes : NoDuplicates(log[i].data)

\* C16: a targeted unblock removes exactly the requested addresses that were
\* blocked; every other blocked address stays blocked and gets no presence; a
\* requested address that was not blocked gets no presence and causes no
\* error, only a failed storage call does.
C16_TargetedUnblockFrame ==
    (Finished /\ IsUnblock /\ Len(req.items) > 0 /\ ~HasMalformedItem /\ ReadBlockList) =>
        /\ \A j \in Addr \ (WantedJIDs \cap BlockedBefore) : PresencesFor(j) = {}
        /\ RepliesOf("bad-request") = {} /\ RepliesOf("jid-malformed") = {}
        /\ ~CallFailed =>
              /\ Succeeded
              /\ blockList = BlockedBefore \ WantedJIDs
              /\ \A i \in Writes :
                    /\ log[i].op = "DeleteBlockListItems"
                    /\ {log[i].data[k] : k \in 1..Len(log[i].data)}
                          = WantedJIDs \cap BlockedBefore
        /\ CallFailed => blockList = BlockedBefore

C16_Witness ==
    /\ Finished /\ IsUnblock /\ Succeeded
    /\ BlockedBefore = {"b"}
    /\ WantedJIDs = Addr
    /\ VisibleTo("a") /\ VisibleTo("b")
    /\ PresencesFor("b") # {}

\* C20: every handled request, whichever path it took, sent exactly one
\* response to the requesting session: one result or one error.
C20_ExactlyOneResponse ==
    Finished =>
        /\ Cardinality(Results \cup Errors) = 1
        /\ Cardinality({i \in LogIdx : log[i].op = "SendElement" /\ log[i].to = req.stm
                                          /\ log[i].typ # "set"}) = 1

C20_Witness ==
    /\ Finished /\ IsUnblock /\ CallFailed
    /\ Routes # {}
    /\ Errors # {}

\* ------------------------------------------------------------------------
\* Two requests in a row: the returning request is remembered
\* ------------------------------------------------------------------------
NewlyBlocked == WantedJIDs \ BlockedBefore

\* what a returning request leaves behind: for a block that succeeded and
\* newly blocked exactly one address, that address, the block set before the
\* request and the number of presences each of its sessions was sent
Remembered ==
    IF IsBlock /\ Succeeded /\ Cardinality(NewlyBlocked) = 1
    THEN LET c == CHOOSE j \in NewlyBlocked : TRUE
         IN  [c |-> c,
              before |-> BlockedBefore,
              unavailable |-> [s \in SessionsOf(c) |-> Cardinality(PresencesTo(s))]]
    ELSE NoPrev

\* ProcessIQ returns, as Return, and the request is remembered
ReturnRemember ==
    /\ pc = "done"
    /\ pc' = "idle"
    /\ req' = NoReq
    /\ log' = <<>>
    /\ prev' = Remembered
    /\ UNCHANGED <<blockList, roster, requested, concVars>>

NextHist ==
    \/ MatchesIQ
    \/ ProcessIQGet
    \/ ProcessIQBlock
    \/ ProcessIQUnblock
    \/ ReturnRemember

SpecHist == Init /\ [][NextHist]_vars

\* C17 (as claimed): a block that newly blocks C followed at once by an
\* unblock of C returns the block set to its value before the block, and
\* when C has relation from or both each live session of C is sent one
\* unavailable presence by the block and one available presence from the
\* owner's bare address by the unblock.
C17_BlockThenUnblock ==
    (Finished /\ IsUnblock /\ Succeeded /\ prev.c # ""
        /\ Len(req.items) > 0 /\ WantedJIDs = {prev.c}) =>
        /\ blockList = prev.before
        /\ VisibleTo(prev.c) =>
              \A s \in SessionsOf(prev.c) :
                 /\ prev.unavailable[s] = 1
                 /\ Cardinality(PresencesTo(s)) = 1
                 /\ \A i \in PresencesTo(s) :
                       log[i].typ = AvailableType /\ log[i].from = Owner

\* ------------------------------------------------------------------------
\* Concurrent handlers: one IQ per owner stream, each handler a goroutine
\* that can be preempted between its calls to storage and to the session
\* directory.  Storage calls succeed here; each is atomic.
\* ------------------------------------------------------------------------
ConcItemLists == {<<>>, <<"a">>, <<"b">>, <<"a", "b">>}

ConcRequests(stm) ==
    {[stm |-> stm, type |-> "get", name |-> "blocklist", items |-> <<>>]}
    \cup {[stm |-> stm, type |-> "set", name |-> "block", items |-> items] :
             items \in ConcItemLists \ {<<>>}}
    \cup {[stm |-> stm, type |-> "set", name |-> "unblock", items |-> items] :
             items \in ConcItemLists}

SeqToSet(q) == {q[i] : i \in 1..Len(q)}

InitConc ==
    /\ blockList \in SUBSET Addr
    /\ roster \in [Addr -> {subscriptionBoth, "to"}]
    /\ requested = [s \in OwnerSessions |-> FALSE]
    /\ pc = "idle"
    /\ req = NoReq
    /\ log = <<>>
    /\ prev = NoPrev
    /\ tasks = [s \in OwnerSessions |-> NoTask]
    /\ lastPresence =
          [a \in Addr |->
              IF roster[a] # subscriptionBoth THEN "none"
              ELSE IF a \in blockList THEN UnavailableType ELSE AvailableType]
    /\ view = [s \in OwnerSessions |-> NoView]

seqVars == <<pc, req, log, prev>>

\* the presences a handler routes, from the snapshots it holds
taskPresences(s) ==
    LET t == tasks[s]
        jds == extractItemJIDs(t.req.items).ret
    IN  IF t.req.name = "block"
        THEN blockDiff(s, jds, t.blItms, t.ris, 1).log
        ELSE IF Len(t.req.items) = 0
        THEN unblockAll(s, t.blItms, t.ris, 1)
        ELSE unblockDiff(s, jds, t.blItms, t.ris, 1).log

\* the items a handler hands to its storage write
taskItems(s) ==
    LET t == tasks[s]
        jds == extractItemJIDs(t.req.items).ret
    IN  IF t.req.name = "block"
        THEN blockDiff(s, jds, t.blItms, t.ris, 1).bl
        ELSE unblockDiff(s, jds, t.blItms, t.ris, 1).bl

\* an IQ arrives on stream s
ConcMatchesIQ(s) ==
    /\ tasks[s].pc = "idle"
    /\ \E r \in ConcRequests(s) :
          tasks' = [tasks EXCEPT ![s] = [@ EXCEPT !.pc = "read", !.req = r]]
    /\ UNCHANGED <<blockList, roster, requested, lastPresence, view, seqVars>>

\* FetchRosterItems and FetchBlockListItems: the handler takes its snapshots
ConcFetch(s) ==
    /\ tasks[s].pc = "read"
    /\ tasks' = [tasks EXCEPT ![s] =
          [@ EXCEPT !.ris = FetchRosterItems(roster),
                    !.blItms = FetchBlockListItems(blockList),
                    !.pc = IF tasks[s].req.type = "get" THEN "reply"
                           ELSE IF tasks[s].req.name = "unblock" /\ Len(tasks[s].req.items) = 0
                           THEN "write"
                           ELSE "presence"]]
    /\ UNCHANGED <<blockList, roster, requested, lastPresence, view, seqVars>>

\* sendBlockList sends the list it read and sets the context flag
ConcSendBlockList(s) ==
    /\ tasks[s].pc = "reply"
    /\ view' = [view EXCEPT ![s] = [fetched |-> TRUE, list |-> SeqToSet(tasks[s].blItms)]]
    /\ requested' = [requested EXCEPT ![s] = TRUE]
    /\ tasks' = [tasks EXCEPT ![s] = [@ EXCEPT !.pc = "done", !.reply = "result"]]
    /\ UNCHANGED <<blockList, roster, lastPresence, seqVars>>

\* the broadcast loop of block or unblock
ConcBroadcast(s) ==
    /\ tasks[s].pc = "presence"
    /\ LET sent == taskPresences(s)
           lastTo(a) == CHOOSE i \in 1..Len(sent) :
                           /\ ToBareJID(sent[i].to) = a
                           /\ \A j \in 1..Len(sent) : ToBareJID(sent[j].to) = a => j <= i
       IN  lastPresence' =
              [a \in Addr |->
                  IF \E i \in 1..Len(sent) : ToBareJID(sent[i].to) = a
                  THEN sent[lastTo(a)].typ
                  ELSE lastPresence[a]]
    /\ tasks' = [tasks EXCEPT ![s] =
          [@ EXCEPT !.pc = IF tasks[s].req.name = "unblock" /\ Len(tasks[s].req.items) = 0
                           THEN "finish" ELSE "write"]]
    /\ UNCHANGED <<blockList, roster, requested, view, seqVars>>

\* slip: the handler writes back the list it read, with its own change
ConcWrite_overwrite(s) ==
    /\ tasks[s].pc = "write"
    /\ LET t == tasks[s]
           items == SeqToSet(taskItems(s))
           snapshot == SeqToSet(t.blItms)
       IN  IF t.req.name = "block"
           THEN /\ blockList' = snapshot \cup items
                /\ tasks' = [tasks EXCEPT ![s] =
                      [@ EXCEPT !.added = items, !.pc = "finish"]]
           ELSE IF Len(t.req.items) = 0
           THEN /\ blockList' = {}
                /\ tasks' = [tasks EXCEPT ![s] =
                      [@ EXCEPT !.removed = blockList, !.pc = "presence"]]
           ELSE /\ blockList' = snapshot \ items
                /\ tasks' = [tasks EXCEPT ![s] =
                      [@ EXCEPT !.removed = items \cap blockList, !.pc = "finish"]]
    /\ UNCHANGED <<roster, requested, lastPresence, view, seqVars>>

\* the storage write of block or unblock
ConcWrite(s) ==
    /\ tasks[s].pc = "write"
    /\ LET t == tasks[s]
           items == taskItems(s)
       IN  IF t.req.name = "block"
           THEN /\ blockList' = IF Len(items) > 0
                                THEN InsertOrUpdateBlockListItems(blockList, items)
                                ELSE blockList
                /\ tasks' = [tasks EXCEPT ![s] =
                      [@ EXCEPT !.added = SeqToSet(items), !.pc = "finish"]]
           ELSE IF Len(t.req.items) = 0
           THEN /\ blockList' = DeleteBlockList(blockList)
                /\ tasks' = [tasks EXCEPT ![s] =
                      [@ EXCEPT !.removed = blockList, !.pc = "presence"]]
           ELSE /\ blockList' = DeleteBlockListItems(blockList, items)
                /\ tasks' = [tasks EXCEPT ![s] =
                      [@ EXCEPT !.removed = SeqToSet(items) \cap blockList,
                                !.pc = "finish"]]
    /\ UNCHANGED <<roster, requested, lastPresence, view, seqVars>>

\* what a client that holds list makes of a pushed block or unblock element
applyPush(list, name, items) ==
    LET jids == SeqToSet(extractItemJIDs(items).ret)
    IN  IF name = "block" THEN list \cup jids
        ELSE IF Len(items) = 0 THEN {}
        ELSE list \ jids

\* result, push and reload of block or unblock
ConcSucceed(s) ==
    /\ tasks[s].pc = "finish"
    /\ LET sent == succeed(s, tasks[s].req, requested)
           pushed(stm) == \E i \in 1..Len(sent) : sent[i].typ = "set" /\ sent[i].to = stm
       IN  view' = [stm \in OwnerSessions |->
                       IF pushed(stm) /\ view[stm].fetched
                       THEN [view[stm] EXCEPT !.list =
                               applyPush(@, tasks[s].req.name, tasks[s].req.items)]
                       ELSE view[stm]]
    /\ tasks' = [tasks EXCEPT ![s] = [@ EXCEPT !.pc = "done", !.reply = "result"]]
    /\ UNCHANGED <<blockList, roster, requested, lastPresence, seqVars>>

NextConc ==
    \E s \in OwnerSessions :
        \/ ConcMatchesIQ(s)
        \/ ConcFetch(s)
        \/ ConcSendBlockList(s)
        \/ ConcBroadcast(s)
        \/ ConcWrite(s)
        \/ ConcSucceed(s)

SpecConc == InitConc /\ [][NextConc]_vars

AllDone == \A s \in OwnerSessions : tasks[s].pc = "done" /\ tasks[s].reply = "result"
AllSet == \A s \in OwnerSessions : tasks[s].req.type = "set"

\* the addresses a request asks to block, and to unblock
WantAdd(s) == IF tasks[s].req.name = "block" THEN SeqToSet(tasks[s].req.items) ELSE {}
WantRemove(s) ==
    IF tasks[s].req.name # "unblock" THEN {}
    ELSE IF Len(tasks[s].req.items) = 0 THEN Addr
    ELSE SeqToSet(tasks[s].req.items)

\* C12: when two block/unblock requests of the same owner ran concurrently
\* and both succeeded, the block set holds every address one of them added
\* and the other did not remove, and no address one of them removed and the
\* other did not add; this for the addresses the requests asked for as well
\* as for those they wrote to the store.
C12_NoLostUpdate ==
    (AllDone /\ AllSet) =>
        \A s, t \in OwnerSessions, x \in Addr :
            s # t =>
               /\ (x \in tasks[s].added /\ x \notin tasks[t].removed) => x \in blockList
               /\ (x \in tasks[s].removed /\ x \notin tasks[t].added) => x \notin blockList
               /\ (x \in WantAdd(s) /\ x \notin WantRemove(t)) => x \in blockList
               /\ (x \in WantRemove(s) /\ x \notin WantAdd(t)) => x \notin blockList

C12_Witness ==
    /\ AllDone /\ AllSet
    /\ \E s, t \in OwnerSessions :
          /\ s # t
          /\ tasks[s].added = {"a"}
          /\ tasks[t].req.name = "unblock"
          /\ tasks[t].blItms = <<>>
          /\ tasks[t].removed = {"a"}

\* C18 (as claimed): once all concurrent requests have succeeded, the last
\* presence sent to a contact with relation from or both is unavailable
\* exactly when the contact is in the block set.
C18_LastPresenceAgreesWithBlockSet ==
    AllDone =>
        \A c \in Addr :
            VisibleTo(c) => ((lastPresence[c] = UnavailableType) <=> (c \in blockList))

\* C19 (as claimed): once all concurrent requests have succeeded, the block
\* list a session was sent, updated by the pushes it received afterwards,
\* equals the stored block set.
C19_FetchedViewEqualsStore ==
    AllDone =>
        \A s \in OwnerSessions : view[s].fetched => view[s].list = blockList

====
